---------------------------- MODULE Spec2Model ----------------------------
(***************************************************************************)
(* A model of the Exposer classifier of ece/Exposer.py: construction       *)
(* (__init__, dropVectors), learn (sample pass, normalize,                 *)
(* calculate_measures), predict and position.  eec/Exposer.py is the       *)
(* earlier form of the same class, whose constructor runs the sample pass, *)
(* the normalization and the measures inline.                              *)
(*                                                                         *)
(* Numbers.  The code computes in floating point; the model computes       *)
(* exactly in a quadratic field.  A number is <<a, b, s, d>>, standing for *)
(* (a + b*sqrt(s)) / d with d > 0, gcd(a, b, d) = 1, s square-free, and    *)
(* s = 1 when b = 0.  The not-a-number of IEEE arithmetic is <<0,0,0,0>>.  *)
(* Every square root the code takes is the norm of a vector of integers or *)
(* of dyadic fractions, so sqrt of a rational is all that is needed; the   *)
(* configurations and feature values are chosen so that two different      *)
(* surds never meet in one sum.  Sequences are 1-based: class k of the     *)
(* code is index k+1 here, feature index f of chosenLambda is f+1, and     *)
(* cell index p of self.model is p+1.                                      *)
(***************************************************************************)
EXTENDS Integers, Sequences, FiniteSets

VARIABLES
    configuration,        \* the dict handed to __init__
    classes,              \* dataset.classes
    samples,              \* dataset.samples: the training samples
    test,                 \* dataset.test: the query samples
    exposerVotingMethod,  \* self.exposerVotingMethod
    grain,                \* self.grain
    radius,               \* self.radius
    chosenLambda,         \* self.chosenLambda
    dimensions,           \* self.dimensions
    g,                    \* self.g
    dropVectors,          \* self.dropVectors (the list, after __init__)
    model,                \* self.model
    hsv,                  \* self.hsv
    thetas,               \* self.thetas
    theta,                \* self.theta
    pc,                   \* the statement the single thread is at
    idx,                  \* the position of the running for-loop
    passes,               \* the number of predict() calls begun so far
    given,                \* history: per test sample, every givenSupport
                          \* added since its accumulator was zeroed
    image                 \* the pixel rows png() last handed to png.Writer

vars == <<configuration, classes, samples, test, exposerVotingMethod, grain,
          radius, chosenLambda, dimensions, g, dropVectors, model, hsv,
          thetas, theta, pc, idx, passes, given, image>>

---------------------------------------------------------------------------
(* Arithmetic *)

Abs(n) == IF n < 0 THEN -n ELSE n

RECURSIVE GCD(_, _)
GCD(m, n) == IF n = 0 THEN m ELSE GCD(n, m % n)

NaN == <<0, 0, 0, 0>>

IsNaN(x) == x[4] = 0

\* No value: an operation outside the field the model computes in.
Unsupported(x) == CHOOSE n \in {} : n = x

Mk(a, b, s, d) ==
    LET k == GCD(GCD(Abs(a), Abs(b)), d)
    IN  IF b = 0 THEN <<a \div k, 0, 1, d \div k>>
                 ELSE <<a \div k, b \div k, s, d \div k>>

Num(n) == <<n, 0, 1, 1>>

Rat(n, d) == Mk(n, 0, 1, d)

Zero == Num(0)

One == Num(1)

Surd(x, y) == IF x[2] # 0 THEN x[3] ELSE y[3]

SameField(x, y) == x[2] = 0 \/ y[2] = 0 \/ x[3] = y[3]

\* The sum over the least common denominator.
Add(x, y) ==
    IF IsNaN(x) \/ IsNaN(y) THEN NaN
    ELSE IF ~SameField(x, y) THEN Unsupported(<<x, y>>)
    ELSE LET k  == GCD(x[4], y[4])
             mx == y[4] \div k
             my == x[4] \div k
         IN  Mk(x[1] * mx + y[1] * my, x[2] * mx + y[2] * my,
                Surd(x, y), x[4] * mx)

Neg(x) == IF IsNaN(x) THEN NaN ELSE <<-x[1], -x[2], x[3], x[4]>>

Sub(x, y) == Add(x, Neg(y))

\* The product, each numerator first reduced against the other denominator.
Mul(x, y) ==
    IF IsNaN(x) \/ IsNaN(y) THEN NaN
    ELSE IF ~SameField(x, y) THEN Unsupported(<<x, y>>)
    ELSE LET kx == GCD(GCD(Abs(x[1]), Abs(x[2])), y[4])
             ky == GCD(GCD(Abs(y[1]), Abs(y[2])), x[4])
             xa == x[1] \div kx
             xb == x[2] \div kx
             ya == y[1] \div ky
             yb == y[2] \div ky
         IN  Mk(xa * ya + Surd(x, y) * xb * yb, xa * yb + xb * ya,
                Surd(x, y), (x[4] \div ky) * (y[4] \div kx))

\* a/b > sqrt(s) for integers a, b > 0 and s no square, by the continued
\* fraction of a/b: with m = floor(sqrt(s)) and a = m*b + r, it holds iff
\* sqrt(s) > (b*(s - m*m) - r*m) / r.
RECURSIVE AboveRoot(_, _, _)
AboveRoot(a, b, s) ==
    LET m == CHOOSE c \in 0..s : c * c <= s /\ (c + 1) * (c + 1) > s
        n == a \div b
        r == a % b
        t == b * (s - m * m) - r * m
    IN  IF n > m THEN TRUE
        ELSE IF n < m \/ r = 0 THEN FALSE
        ELSE IF t <= 0 THEN TRUE
        ELSE ~AboveRoot(t, r, s)

\* -1, 0 or 1: the sign of a + b*sqrt(s).
Sign(x) ==
    LET a == x[1]
        b == x[2]
        s == x[3]
    IN  IF b = 0 THEN (IF a > 0 THEN 1 ELSE IF a < 0 THEN -1 ELSE 0)
        ELSE IF a = 0 THEN (IF b > 0 THEN 1 ELSE -1)
        ELSE IF a > 0 /\ b > 0 THEN 1
        ELSE IF a < 0 /\ b < 0 THEN -1
        ELSE IF a > 0 THEN (IF AboveRoot(a, -b, s) THEN 1 ELSE -1)
        ELSE (IF AboveRoot(-a, b, s) THEN -1 ELSE 1)

IsZero(x) == ~IsNaN(x) /\ x[1] = 0 /\ x[2] = 0

\* x / y in IEEE arithmetic: 0/0 is not-a-number.  With y = h*(a + b*sqrt(s))/d
\* and gcd(a, b) = 1, 1/y = d*(a - b*sqrt(s)) / (h*(a*a - s*b*b)).
Div(x, y) ==
    IF IsNaN(x) \/ IsNaN(y) THEN NaN
    ELSE IF IsZero(y) THEN (IF IsZero(x) THEN NaN ELSE Unsupported(<<x, y>>))
    ELSE LET h   == GCD(Abs(y[1]), Abs(y[2]))
             a   == y[1] \div h
             b   == y[2] \div h
             n   == a * a - y[3] * b * b
             sg  == IF n < 0 THEN -1 ELSE 1
             num == Mk(sg * a, -sg * b, y[3], sg * n)
         IN  Mul(x, Mul(num, Mk(y[4], 0, 1, h)))

\* Comparisons with a not-a-number are false, and != is true.
Lt(x, y) == ~IsNaN(x) /\ ~IsNaN(y) /\ Sign(Sub(x, y)) < 0

Gt(x, y) == Lt(y, x)

Ne(x, y) == IsNaN(x) \/ IsNaN(y) \/ Sign(Sub(x, y)) # 0

\* math.sqrt of a rational a/d >= 0: sqrt(a*d)/d, with a*d = j*j*s.
Sqrt(x) ==
    IF IsNaN(x) THEN NaN
    ELSE IF x[2] # 0 \/ x[1] < 0 THEN Unsupported(x)
    ELSE IF x[1] = 0 THEN Zero
    ELSE LET k == x[1] * x[4]
             j == CHOOSE c \in 1..k :
                     /\ k % (c * c) = 0
                     /\ \A e \in (c + 1)..k : k % (e * e) # 0
         IN  IF k = j * j THEN Mk(j, 0, 1, x[4])
                          ELSE Mk(0, j, k \div (j * j), x[4])

\* int() and astype(int) of a rational: truncation toward zero.
Trunc(x) ==
    IF x[2] # 0 \/ IsNaN(x) THEN Unsupported(x)
    ELSE IF x[1] >= 0 THEN x[1] \div x[4] ELSE -((-x[1]) \div x[4])

RECURSIVE Pow(_, _)
Pow(b, e) == IF e = 0 THEN 1 ELSE b * Pow(b, e - 1)

RECURSIVE SumSeq(_)
SumSeq(s) == IF s = <<>> THEN Zero ELSE Add(Head(s), SumSeq(Tail(s)))

---------------------------------------------------------------------------
(* Helpers of the class *)

\* A faulty self.g: each entry the previous one plus grain, not times grain.
RECURSIVE SumsOfGrain(_, _)
SumsOfGrain(gr, n) ==
    IF n = 0 THEN <<>>
    ELSE IF n = 1 THEN <<1>>
    ELSE LET p == SumsOfGrain(gr, n - 1) IN Append(p, p[n - 1] + gr)

\* __init__: self.g, the consecutive powers of grain.
RECURSIVE PowersOfGrain(_, _)
PowersOfGrain(gr, n) ==
    IF n = 0 THEN <<>>
    ELSE IF n = 1 THEN <<1>>
    ELSE LET p == PowersOfGrain(gr, n - 1) IN Append(p, p[n - 1] * gr)

\* position(): acc += p[i] * self.g[i] over the dimensions.
RECURSIVE positionFrom(_, _, _)
positionFrom(p, gv, i) ==
    IF i > Len(gv) THEN 0 ELSE p[i] * gv[i] + positionFrom(p, gv, i + 1)

position(p, gv) == positionFrom(p, gv, 1)

\* sum([n**2 for n in map(operator.sub, a, b)]) for sequences of numbers.
RECURSIVE SumSquares(_)
SumSquares(s) ==
    IF s = <<>> THEN Zero
    ELSE Add(Mul(Head(s), Head(s)), SumSquares(Tail(s)))

IntVec(v) == [j \in 1..Len(v) |-> Num(v[j])]

\* dropVectors(): one pass of the inner loop over j for counter value i.
\* v[j] advances when i is a multiple of z[j] and wraps at diameter.
\* (<<>> \o f is f itself: written so, the new counter is computed once.)
advance(v, i, diameter) ==
    <<>> \o [j \in 1..Len(v) |->
        LET stepped == IF i % Pow(diameter, j - 1) = 0 THEN v[j] + 1 ELSE v[j]
        IN  IF stepped = diameter THEN 0 ELSE stepped]

\* A faulty loop body: the ball taken closed (distance <= radius).
dropPointClosed(point, rq) ==
    LET distance == Sqrt(SumSquares(IntVec(point)))
    IN  IF ~Gt(distance, Num(rq))
        THEN <<[offset |-> point,
                weight |-> Div(Sub(Num(rq), distance), Num(rq))]>>
        ELSE <<>>

\* dropVectors(): the body of the loop for one point.
dropPoint(point, rq) ==
    LET distance == Sqrt(SumSquares(IntVec(point)))
    IN  IF Lt(distance, Num(rq))
        THEN <<[offset |-> point,
                weight |-> Div(Sub(Num(rq), distance), Num(rq))]>>
        ELSE <<>>

\* dropVectors(): the turns lo .. hi-1 of the loop over
\* i in xrange(0, diameter^dimensions), entered with counter v.  The result
\* is <<the base vectors those turns append, the counter after turn hi-1>>;
\* the range is halved so that the evaluation stays shallow.
dropTurn(i, w, rq) == <<dropPoint([j \in 1..Len(w) |-> w[j] - rq], rq), w>>

RECURSIVE dropLoop(_, _, _, _)
dropLoop(lo, hi, v, rq) ==
    IF hi <= lo THEN <<<<>>, v>>
    ELSE IF hi = lo + 1 THEN dropTurn(lo, advance(v, lo, 2 * rq + 1), rq)
    ELSE LET mid   == (lo + hi) \div 2
             first == dropLoop(lo, mid, v, rq)
             rest  == dropLoop(mid, hi, first[2], rq)
         IN  <<first[1] \o rest[1], rest[2]>>

quantizedRadius(r, gr) == Trunc(Mul(r, Num(gr)))

DropVectors(n, gr, r) ==
    dropLoop(0, Pow(2 * quantizedRadius(r, gr) + 1, n), [j \in 1..n |-> -1],
             quantizedRadius(r, gr))[1]

---------------------------------------------------------------------------
(* numpy reductions over a row or a column of numbers *)

HasNaN(s) == \E j \in 1..Len(s) : IsNaN(s[j])

\* np.max, np.amax: a not-a-number propagates.
npMax(s) ==
    IF HasNaN(s) THEN NaN
    ELSE s[CHOOSE j \in 1..Len(s) : \A k \in 1..Len(s) : ~Lt(s[j], s[k])]

\* np.min
npMin(s) ==
    IF HasNaN(s) THEN NaN
    ELSE s[CHOOSE j \in 1..Len(s) : \A k \in 1..Len(s) : ~Lt(s[k], s[j])]

\* np.argmax: the first not-a-number if there is one, else the first
\* maximum; the result is the 0-based index of the code.
npArgmax(s) ==
    IF HasNaN(s)
    THEN (CHOOSE j \in 1..Len(s) :
              IsNaN(s[j]) /\ \A k \in 1..(j - 1) : ~IsNaN(s[k])) - 1
    ELSE (CHOOSE j \in 1..Len(s) :
              /\ \A k \in 1..Len(s) : ~Lt(s[j], s[k])
              /\ \A k \in 1..(j - 1) : Lt(s[k], s[j])) - 1

Column(m, k) == [c \in 1..Len(m) |-> m[c][k]]

---------------------------------------------------------------------------
(* learn(): the sample pass *)

\* The constant of factor = 5 - distance.
FactorBase == 5

\* [sample.features[index] for index in self.chosenLambda]
chosenFeatures(sample, lambda) ==
    [j \in 1..Len(lambda) |-> sample.features[lambda[j]]]

\* location_i = (location).astype(int)
quantize(features, gr) ==
    [j \in 1..Len(features) |-> Trunc(Mul(features[j], Num(gr)))]

\* factor = 5 - sqrt(sum((location_i - location)^2))
factorOf(features, gr) ==
    LET location   == [j \in 1..Len(features) |-> Mul(features[j], Num(gr))]
        location_i == quantize(features, gr)
        diff       == [j \in 1..Len(features) |->
                          Sub(Num(location_i[j]), location[j])]
    IN  Sub(Num(FactorBase), Sqrt(SumSquares(diff)))

\* A faulty overflow test: only the last axis is looked at.
overflowLast(vector, gr) ==
    vector[Len(vector)] < 0 \/ vector[Len(vector)] >= gr

\* The overflow test on vector = dropVector[0] + location_i.
overflow(vector, gr) ==
    \E j \in 1..Len(vector) : vector[j] < 0 \/ vector[j] >= gr

\* The body of the loop over self.dropVectors, for one drop vector.
dropOne(m, dropVector, location_i, factor, label, gr, gv) ==
    LET vector == [j \in 1..Len(location_i) |->
                      dropVector.offset[j] + location_i[j]]
    IN  IF overflow(vector, gr) THEN m
        ELSE LET influence == Mul(dropVector.weight, factor)
                 pos       == position(vector, gv)
             IN  [m EXCEPT ![pos + 1][label + 1] = Add(@, influence)]

RECURSIVE dropAll(_, _, _, _, _, _, _, _)
dropAll(m, dvs, k, location_i, factor, label, gr, gv) ==
    IF k > Len(dvs) THEN m
    ELSE dropAll(dropOne(m, dvs[k], location_i, factor, label, gr, gv),
                 dvs, k + 1, location_i, factor, label, gr, gv)

\* np.isnan(features).any()
anyMissing(features) == HasNaN(features)

\* A faulty test: a missing value in any feature, chosen or not.
skippedOnAny(sample, lambda) == anyMissing(sample.features)

\* "Ignore samples with missing values": the test that guards continue.
skipped(sample, lambda) == anyMissing(chosenFeatures(sample, lambda))

\* The body of the loop over self.dataset.samples, for one sample.
exposeSample(m, sample, lambda, gr, gv, dvs) ==
    LET features == chosenFeatures(sample, lambda)
    IN  IF skipped(sample, lambda) THEN m
        ELSE dropAll(m, dvs, 1, quantize(features, gr),
                     factorOf(features, gr), sample.label, gr, gv)

---------------------------------------------------------------------------
(* normalize() *)

AllInt(m) == \A c \in 1..Len(m) : \A k \in 1..Len(m[c]) : IsZero(m[c][k])

\* self.model /= np.amax(self.model, axis=0).  A matrix no influence was
\* added to still holds the integers 0 it was created with, and numpy's
\* integer division of 0 by 0 gives 0; otherwise the matrix is of floats
\* and 0.0 / 0.0 is not-a-number.
normalized(m) ==
    IF AllInt(m) THEN m
    ELSE [c \in 1..Len(m) |->
             [k \in 1..Len(m[c]) |-> Div(m[c][k], npMax(Column(m, k)))]]

---------------------------------------------------------------------------
(* calculate_measures() *)

\* A faulty treshold: one no normalized support exceeds.
tresholdAboveOne == Rat(11, 10)

\* treshold = .7
treshold == Rat(7, 10)

\* (hue, saturation, value) of one pixel.
hsvOf(pixel) ==
    LET cmax       == npMax(pixel)
        cmax_i     == npArgmax(pixel)
        cmin       == npMin(pixel)
        delta      == Sub(cmax, cmin)
        hue        == Rat(cmax_i, Len(pixel))
        saturation == IF Ne(cmax, Zero) THEN Div(delta, cmax) ELSE Zero
    IN  <<hue, saturation, cmax>>

\* presence[cmax_i] += 1 for every pixel whose value exceeds the treshold.
presenceCount(m, k) ==
    Cardinality({c \in 1..Len(m) :
                    Gt(npMax(m[c]), treshold) /\ npArgmax(m[c]) = k})

\* presence /= sum(presence); self.thetas = [1] * classes - presence
thetasOf(m, n) ==
    LET presence == [k \in 1..n |-> Num(presenceCount(m, k - 1))]
        total    == SumSeq(presence)
    IN  [k \in 1..n |-> Sub(One, Div(presence[k], total))]

\* np.mean(self.thetas)
mean(s) == Div(SumSeq(s), Num(Len(s)))

---------------------------------------------------------------------------
(* predict() *)

\* A faulty substitution: the missing values are left as they are.
keepMissing(features) == features

\* features[np.isnan(features)] = .5
fillMissing(features) ==
    [j \in 1..Len(features) |->
        IF IsNaN(features[j]) THEN Rat(1, 2) ELSE features[j]]

\* int(feature * self.grain) if feature < 1 else self.grain - 1
queryLocation(features, gr) ==
    [j \in 1..Len(features) |->
        IF Lt(features[j], One) THEN Trunc(Mul(features[j], Num(gr)))
                                ELSE gr - 1]

\* The 0-based index of the cell a test sample falls in.
queryPosition(sample, lambda, gr, gv) ==
    position(queryLocation(fillMissing(chosenFeatures(sample, lambda)), gr), gv)

scale(x, s) == [k \in 1..Len(s) |-> Mul(x, s[k])]

\* map(operator.mul, a, b)
mulEach(a, b) == [k \in 1..Len(b) |-> Mul(a[k], b[k])]

\* A faulty chain: the support row whatever the voting method.
givenSupportLone(method, support, th, ths, saturation) == support

\* The if / elif chain on self.exposerVotingMethod.
givenSupport(method, support, th, ths, saturation) ==
    IF method = "lone" THEN support
    ELSE IF method = "theta1" THEN scale(th, support)
    ELSE IF method = "theta2" THEN mulEach(ths, support)
    ELSE IF method = "theta3" THEN scale(th, mulEach(ths, support))
    ELSE scale(Mul(saturation, th), mulEach(ths, support))

\* A faulty update: the accumulator is replaced by what is given.
replaceEach(a, b) == [k \in 1..Len(a) |-> b[k]]

\* sample.support += givenSupport
addEach(a, b) == [k \in 1..Len(a) |-> Add(a[k], b[k])]

\* sample.decidePrediction(), a method of the dataset's sample: it reads the
\* accumulator as it is when called and settles the prediction on it.
decidePrediction(sample) ==
    [sample EXCEPT !.prediction = npArgmax(sample.support),
                   !.decided    = @ + 1,
                   !.seen       = sample.support]

\* The body of the loop over self.dataset.test, for one sample.
predictSample(sample, contribution) ==
    decidePrediction([sample EXCEPT !.support = addEach(@, contribution)])

---------------------------------------------------------------------------
(* png() *)

\* abs(x)
absOf(x) == IF IsNaN(x) THEN NaN ELSE IF Sign(x) < 0 THEN Neg(x) ELSE x

\* x % 2 for a rational x that is not negative.
mod2(x) == Sub(x, Num(2 * Trunc(Div(x, Num(2)))))

\* rgb: the first three supports of the pixel, 0 where there is no class.
rgbGuide(support) ==
    [ch \in 1..3 |-> IF ch <= Len(support) THEN support[ch] ELSE Zero]

\* r, g, b from h, s, v by the hue sectors of width 1/6.
sectorColour(h, s, v) ==
    LET c == Mul(v, s)
        x == Mul(c, Sub(One, absOf(Sub(mod2(Mul(h, Num(6))), One))))
    IN  IF Lt(h, Rat(1, 6)) THEN <<c, x, Zero>>
        ELSE IF Lt(h, Rat(2, 6)) THEN <<x, c, Zero>>
        ELSE IF Lt(h, Rat(3, 6)) THEN <<Zero, c, x>>
        ELSE IF Lt(h, Rat(4, 6)) THEN <<Zero, x, c>>
        ELSE IF Lt(h, Rat(5, 6)) THEN <<x, Zero, c>>
        ELSE <<c, Zero, x>>

\* rgb[ch] * scale + colour[ch] * (255 - scale)
blended(support, triple, byScale, ch) ==
    Add(Mul(rgbGuide(support)[ch], Num(byScale)),
        Mul(sectorColour(triple[1], triple[2], triple[3])[ch],
            Num(255 - byScale)))

\* The 0-based index of the cell png() reads for column x of row y.
pngPosition(x, y, n, gv) ==
    position([j \in 1..n |-> IF j = 1 THEN x ELSE IF j = 2 THEN y ELSE 0], gv)

\* image: grain rows of 3 * grain values, over the first two dimensions.
pngImage(m, hs, gr, n, gv, byScale) ==
    [y \in 1..gr |->
        [e \in 1..(3 * gr) |->
            blended(m[pngPosition((e - 1) \div 3, y - 1, n, gv) + 1],
                    hs[pngPosition((e - 1) \div 3, y - 1, n, gv) + 1],
                    byScale, ((e - 1) % 3) + 1)]]

---------------------------------------------------------------------------
(* Inputs *)

\* The scale argument of png(): the default 240 and the two ends of its range.
Scales == {0, 240, 255}

\* The longest training set of SpecLearn.
MaxSamples == 2

\* The most predict() calls in one behaviour.
MaxPredicts == 2

\* The largest grain of SpecGeom.
MaxGrain == 5

Modes == {"lone", "theta1", "theta2", "theta3", "thetas"}

\* grain, radius and chosenLambda; the quantized radius is 2, 2, 2 and 3.
Geometries ==
    { [grain |-> 3, radius |-> Rat(3, 4), chosenLambda |-> <<1>>],
      [grain |-> 2, radius |-> One,       chosenLambda |-> <<1, 2>>],
      [grain |-> 4, radius |-> Rat(1, 2), chosenLambda |-> <<2, 1>>],
      [grain |-> 3, radius |-> One,       chosenLambda |-> <<2>>] }

withMode(c, m) ==
    [grain |-> c.grain, radius |-> c.radius, chosenLambda |-> c.chosenLambda,
     exposerVotingMethod |-> m]

\* A configuration names a voting mode or leaves it out.
Configurations ==
    Geometries \cup {withMode(c, m) : c \in Geometries, m \in Modes}

\* Every grain up to MaxGrain, radius 1/4 .. 1, one to three dimensions.
GeomConfigurations ==
    [grain : 1..MaxGrain, radius : {Rat(1, 4), Rat(1, 2), Rat(3, 4), One},
     chosenLambda : {<<1>>, <<1, 2>>, <<1, 2, 3>>}]

TwoClasses == <<0, 1>>

TrainFeatures ==
    { <<Rat(1, 4), Rat(3, 4)>>, <<Rat(1, 2), Zero>>, <<Rat(1, 2), Rat(1, 4)>>,
      <<NaN, Rat(1, 2)>>, <<Rat(3, 4), NaN>> }

TrainSamples(cls) ==
    [label : {cls[k] : k \in 1..Len(cls)}, features : TrainFeatures]

Datasets(cls) ==
    UNION {[1..n -> TrainSamples(cls)] : n \in 0..MaxSamples}

labelled(label, f1, f2) == [label |-> label, features |-> <<f1, f2>>]

\* The training sets of Spec: none, one class only, both classes, both
\* classes with samples that miss a feature, every sample missing one.
Trainings ==
    { <<>>,
      <<labelled(0, Rat(1, 2), Zero), labelled(0, Rat(1, 4), Rat(3, 4))>>,
      <<labelled(0, Rat(1, 4), Rat(3, 4)), labelled(1, Rat(1, 2), Zero)>>,
      <<labelled(1, Rat(1, 4), Rat(3, 4)), labelled(0, Rat(3, 4), NaN),
        labelled(0, Rat(1, 2), Zero), labelled(1, NaN, Rat(1, 2))>>,
      <<labelled(0, NaN, NaN), labelled(1, NaN, NaN)>> }

TestFeatures ==
    << <<Rat(1, 4), Rat(3, 4)>>, <<NaN, One>>, <<Rat(1, 2), One>>,
       <<Rat(3, 2), NaN>>, <<Rat(3, 2), Rat(1, 2)>> >>

\* A test sample after dataset.clearSupports().
cleared(features, cls) ==
    [features |-> features, support |-> [k \in 1..Len(cls) |-> Zero],
     prediction |-> 0, decided |-> 0, seen |-> <<>>]

TestSet(cls) == [j \in 1..Len(TestFeatures) |-> cleared(TestFeatures[j], cls)]

---------------------------------------------------------------------------
(* The state machine *)

\* The arguments of Exposer(dataset, configuration), before __init__ runs.
InitWith(c, cls, train, tests) ==
    /\ configuration = c
    /\ classes = cls
    /\ samples = train
    /\ test = tests
    /\ exposerVotingMethod = ""
    /\ grain = 0
    /\ radius = Zero
    /\ chosenLambda = <<>>
    /\ dimensions = 0
    /\ g = <<>>
    /\ dropVectors = <<>>
    /\ model = <<>>
    /\ hsv = <<>>
    /\ thetas = <<>>
    /\ theta = <<>>
    /\ pc = "new"
    /\ idx = 0
    /\ passes = 0
    /\ given = [j \in 1..Len(tests) |-> <<>>]
    /\ image = <<>>

\* The whole life of an ensemble over one dataset.
Init ==
    \E c \in Configurations, train \in Trainings :
        InitWith(c, TwoClasses, train, TestSet(TwoClasses))

\* Training alone, over every training set up to MaxSamples samples.
InitLearn ==
    \E c \in Geometries, train \in Datasets(TwoClasses) :
        InitWith(c, TwoClasses, train, <<>>)

\* Construction alone, over every geometry up to MaxGrain.
InitGeom ==
    \E c \in GeomConfigurations : InitWith(c, TwoClasses, <<>>, <<>>)

\* One exposer of each geometry, voting lone, over each training set.
InitRelearn ==
    \E c \in Geometries, train \in Trainings :
        InitWith(c, TwoClasses, train, TestSet(TwoClasses))

dataset == <<classes, samples>>

object == <<exposerVotingMethod, grain, radius, chosenLambda, dimensions, g,
            dropVectors>>

\* __init__
Construct ==
    /\ pc = "new"
    /\ exposerVotingMethod' =
           IF "exposerVotingMethod" \in DOMAIN configuration
           THEN configuration.exposerVotingMethod ELSE "lone"
    /\ grain' = configuration.grain
    /\ radius' = configuration.radius
    /\ chosenLambda' = configuration.chosenLambda
    /\ dimensions' = Len(configuration.chosenLambda)
    /\ g' = PowersOfGrain(configuration.grain, Len(configuration.chosenLambda))
    /\ dropVectors' = DropVectors(Len(configuration.chosenLambda),
                                  configuration.grain, configuration.radius)
    /\ pc' = "ready"
    /\ UNCHANGED <<image, configuration, dataset, test, model, hsv, thetas, theta,
                   idx, passes, given>>

\* Where learn() goes once sample number i has been handled.
afterSample(i) == IF i >= Len(samples) THEN "normalize" ELSE "sample"

\* A faulty start of learn(): a grid that is there already is kept, so a
\* second learn() adds to what the first one left.
LearnBeginOnTop ==
    /\ pc = "ready"
    /\ model' = IF model # <<>> THEN model
                ELSE [c \in 1..Pow(grain, dimensions) |->
                         [k \in 1..Len(classes) |-> Zero]]
    /\ hsv' = [c \in 1..Pow(grain, dimensions) |-> <<Zero, Zero, Zero>>]
    /\ idx' = 1
    /\ pc' = afterSample(0)
    /\ UNCHANGED <<image, configuration, dataset, test, object, thetas, theta,
                   passes, given>>

\* learn(): self.model and self.hsv are created, full of the integer 0.
LearnBegin ==
    /\ pc = "ready"
    /\ model' = [c \in 1..Pow(grain, dimensions) |->
                    [k \in 1..Len(classes) |-> Zero]]
    /\ hsv' = [c \in 1..Pow(grain, dimensions) |-> <<Zero, Zero, Zero>>]
    /\ idx' = 1
    /\ pc' = afterSample(0)
    /\ UNCHANGED <<image, configuration, dataset, test, object, thetas, theta,
                   passes, given>>

\* learn(): one turn of the loop over self.dataset.samples.
LearnSample ==
    /\ pc = "sample"
    /\ model' = exposeSample(model, samples[idx], chosenLambda, grain, g,
                             dropVectors)
    /\ idx' = idx + 1
    /\ pc' = afterSample(idx)
    /\ UNCHANGED <<image, configuration, dataset, test, object, hsv, thetas, theta,
                   passes, given>>

\* learn(): self.normalize()
Normalize ==
    /\ pc = "normalize"
    /\ model' = normalized(model)
    /\ pc' = "measures"
    /\ UNCHANGED <<image, configuration, dataset, test, object, hsv, thetas, theta,
                   idx, passes, given>>

\* learn(): self.calculate_measures()
CalculateMeasures ==
    /\ pc = "measures"
    /\ hsv' = [c \in 1..Len(model) |-> hsvOf(model[c])]
    /\ thetas' = thetasOf(model, Len(classes))
    /\ theta' = mean(thetasOf(model, Len(classes)))
    /\ pc' = "ready"
    /\ UNCHANGED <<image, configuration, dataset, test, object, model, idx, passes,
                   given>>

trained == model # <<>> /\ thetas # <<>>

\* Where predict() goes once test sample number i has been handled.
afterTest(i) == IF i >= Len(test) THEN "ready" ELSE "predict"

\* predict() is called on a trained exposer.
PredictBegin ==
    /\ pc = "ready"
    /\ trained
    /\ passes < MaxPredicts
    /\ passes' = passes + 1
    /\ idx' = 1
    /\ pc' = afterTest(0)
    /\ UNCHANGED <<image, configuration, dataset, test, object, model, hsv, thetas,
                   theta, given>>

\* The givenSupport predict() computes for a test sample.
contribution(sample) ==
    LET pos == queryPosition(sample, chosenLambda, grain, g)
    IN  givenSupport(exposerVotingMethod, model[pos + 1], theta, thetas,
                     hsv[pos + 1][2])

\* A faulty turn of the loop: the accumulator is the grid row itself, so
\* the addition lands in self.model as well.
PredictSampleInPlace ==
    /\ pc = "predict"
    /\ test' = [test EXCEPT ![idx] = predictSample(@, contribution(test[idx]))]
    /\ model' = [model EXCEPT
                    ![queryPosition(test[idx], chosenLambda, grain, g) + 1] =
                        addEach(@, contribution(test[idx]))]
    /\ given' = [given EXCEPT ![idx] = Append(@, contribution(test[idx]))]
    /\ idx' = idx + 1
    /\ pc' = afterTest(idx)
    /\ UNCHANGED <<image, configuration, dataset, object, hsv, thetas, theta,
                   passes>>

\* predict(): one turn of the loop over self.dataset.test.
PredictSample ==
    /\ pc = "predict"
    /\ test' = [test EXCEPT ![idx] = predictSample(@, contribution(test[idx]))]
    /\ given' = [given EXCEPT ![idx] = Append(@, contribution(test[idx]))]
    /\ idx' = idx + 1
    /\ pc' = afterTest(idx)
    /\ UNCHANGED <<image, configuration, dataset, object, model, hsv, thetas, theta,
                   passes>>

\* The ensemble takes its next member: another Exposer over the same
\* dataset, with the same voting mode and another geometry.
NextExposer ==
    /\ pc = "ready"
    /\ passes >= 1
    /\ \E c \in Geometries :
          configuration' =
              IF "exposerVotingMethod" \in DOMAIN configuration
              THEN withMode(c, configuration.exposerVotingMethod) ELSE c
    /\ exposerVotingMethod' = ""
    /\ grain' = 0
    /\ radius' = Zero
    /\ chosenLambda' = <<>>
    /\ dimensions' = 0
    /\ g' = <<>>
    /\ dropVectors' = <<>>
    /\ model' = <<>>
    /\ hsv' = <<>>
    /\ thetas' = <<>>
    /\ theta' = <<>>
    /\ pc' = "new"
    /\ idx' = 0
    /\ UNCHANGED <<image, dataset, test, passes, given>>

\* png(filename, scale) on a trained exposer.  With one dimension only,
\* vector[1] = y raises IndexError before anything is computed.
Png ==
    /\ pc = "ready"
    /\ trained
    /\ \E byScale \in Scales :
          image' = IF dimensions >= 2
                   THEN pngImage(model, hsv, grain, dimensions, g, byScale)
                   ELSE image
    /\ UNCHANGED <<configuration, dataset, test, object, model, hsv, thetas,
                   theta, pc, idx, passes, given>>

\* Between two calls the caller gives the dataset other training samples
\* (self.dataset is the caller's object); the exposer is not told.
NewSamples ==
    /\ pc = "ready"
    /\ trained
    /\ samples' \in Trainings \ {samples}
    /\ UNCHANGED <<image, configuration, classes, test, object, model, hsv,
                   thetas, theta, pc, idx, passes, given>>

NextGeom == Construct

\* One exposer that is trained again and again, predicting in between.
NextRelearn ==
    \/ Construct
    \/ LearnBegin
    \/ LearnSample
    \/ Normalize
    \/ CalculateMeasures
    \/ PredictBegin
    \/ PredictSample
    \/ NewSamples

\* One exposer: training, predictions and renderings.
NextRender ==
    \/ Construct
    \/ LearnBegin
    \/ LearnSample
    \/ Normalize
    \/ CalculateMeasures
    \/ PredictBegin
    \/ PredictSample
    \/ Png

NextLearn ==
    \/ Construct
    \/ LearnBegin
    \/ LearnSample
    \/ Normalize
    \/ CalculateMeasures

Next ==
    \/ Construct
    \/ LearnBegin
    \/ LearnSample
    \/ Normalize
    \/ CalculateMeasures
    \/ PredictBegin
    \/ PredictSample
    \/ NextExposer

Spec == Init /\ [][Next]_vars

SpecLearn == InitLearn /\ [][NextLearn]_vars

SpecGeom == InitGeom /\ [][NextGeom]_vars

SpecRender == Init /\ [][NextRender]_vars

SpecRelearn == InitRelearn /\ [][NextRelearn]_vars

---------------------------------------------------------------------------
(* Properties of construction (SpecGeom) *)

constructed == pc = "ready"

\* floor(radius * grain), from the numerator and denominator of radius.
floorRadius == (radius[1] * grain) \div radius[4]

RECURSIVE SquareNorm(_, _)
SquareNorm(v, j) == IF j = 0 THEN 0 ELSE v[j] * v[j] + SquareNorm(v, j - 1)

\* The integer vectors of [-rq, rq]^n with Euclidean norm below rq.
OpenBall(n, rq) == {v \in [1..n -> -rq..rq] : SquareNorm(v, n) < rq * rq}

\* w = (rq - ||v||) / rq, stated without a square root:
\* rq - rq*w is not negative and its square is ||v||^2.
IsWeightOf(w, v, rq) ==
    LET x == Sub(Num(rq), Mul(Num(rq), w))
    IN  Sign(x) >= 0 /\ Mul(x, x) = Num(SquareNorm(v, Len(v)))

\* C3: with floor(radius*grain) >= 1, self.dropVectors holds exactly the
\* integer vectors of the hypercube [-rq, rq]^dimensions whose norm is
\* strictly below rq, each once, each with weight (rq - ||v||)/rq; every
\* weight is in (0, 1] and the list is symmetric under negation.
C3_DropVectorsAreTheOpenBall ==
    (constructed /\ floorRadius >= 1) =>
        /\ {dropVectors[i].offset : i \in DOMAIN dropVectors}
               = OpenBall(dimensions, floorRadius)
        /\ Len(dropVectors) = Cardinality(OpenBall(dimensions, floorRadius))
        /\ \A i \in DOMAIN dropVectors :
              /\ IsWeightOf(dropVectors[i].weight, dropVectors[i].offset,
                            floorRadius)
              /\ Gt(dropVectors[i].weight, Zero)
              /\ ~Gt(dropVectors[i].weight, One)
              /\ \E k \in DOMAIN dropVectors :
                    /\ dropVectors[k].offset =
                           [j \in 1..dimensions |-> -dropVectors[i].offset[j]]
                    /\ dropVectors[k].weight = dropVectors[i].weight

\* A three-dimensional ball of radius 3 has been enumerated; it holds the
\* centre with weight 1 and a vector whose weight is irrational.
C3_Witness ==
    /\ constructed
    /\ dimensions = 3
    /\ floorRadius = 3
    /\ \E i \in DOMAIN dropVectors :
          dropVectors[i].offset = <<0, 0, 0>> /\ dropVectors[i].weight = One
    /\ \E i \in DOMAIN dropVectors :
          dropVectors[i].offset = <<1, -1, 0>> /\ dropVectors[i].weight[2] # 0

\* The coordinate vectors of the grid.
Coordinates == [1..dimensions -> 0..(grain - 1)]

\* Inverse mixed-radix decoding: digit j of index, least significant first.
decode(index) ==
    [j \in 1..dimensions |-> (index \div Pow(grain, j - 1)) % grain]

\* C4: position() is a bijection from [0, grain)^dimensions onto
\* [0, grain^dimensions): every coordinate vector maps inside the grid, no
\* two map to the same index, every index is reached, and decoding the
\* index recovers the vector.
C4_PositionIsABijection ==
    constructed =>
        /\ \A p \in Coordinates :
              /\ position(p, g) \in 0..(Pow(grain, dimensions) - 1)
              /\ decode(position(p, g)) = p
        /\ \A p, q \in Coordinates : position(p, g) = position(q, g) => p = q
        /\ {position(p, g) : p \in Coordinates}
               = 0..(Pow(grain, dimensions) - 1)

\* A grid of three dimensions and grain 4; the last cell has the last index.
C4_Witness ==
    /\ constructed
    /\ dimensions = 3
    /\ grain = 4
    /\ position(<<3, 0, 1>>, g) = 19
    /\ position(<<3, 3, 3>>, g) = 63

---------------------------------------------------------------------------
(* Properties of the sample pass (SpecLearn) *)

\* The samples the loop of learn() has handled so far.
handled == IF pc = "sample" THEN 1..(idx - 1) ELSE 1..Len(samples)

\* No chosen feature of sample i is missing.
complete(i) ==
    \A j \in 1..dimensions : ~IsNaN(samples[i].features[chosenLambda[j]])

\* loc_f = features * grain and loc_i = floor(loc_f), for a complete sample
\* with features that are not negative.
loc_f(i) ==
    [j \in 1..dimensions |->
        Mul(samples[i].features[chosenLambda[j]], Num(grain))]

loc_i(i) == [j \in 1..dimensions |-> loc_f(i)[j][1] \div loc_f(i)[j][4]]

\* 5 - ||loc_i - loc_f||
correction(i) ==
    Sub(Num(5),
        Sqrt(SumSquares([j \in 1..dimensions |->
                            Sub(Num(loc_i(i)[j]), loc_f(i)[j])])))

\* The cell sample i and drop vector d aim at.
target(i, d) ==
    [j \in 1..dimensions |-> loc_i(i)[j] + dropVectors[d].offset[j]]

\* The weights of the drop vectors 1..d whose offset is v, added up.
RECURSIVE weightAt(_, _)
weightAt(v, d) ==
    IF d = 0 THEN Zero
    ELSE IF dropVectors[d].offset = v
         THEN Add(dropVectors[d].weight, weightAt(v, d - 1))
         ELSE weightAt(v, d - 1)

\* What sample i adds to cell c of class k: over the drop vectors with
\* loc_i + offset = c, the sum of weight * (5 - ||loc_i - loc_f||).
share(i, c, k) ==
    IF samples[i].label = k /\ complete(i)
    THEN Mul(weightAt([j \in 1..dimensions |-> c[j] - loc_i(i)[j]],
                      Len(dropVectors)),
             correction(i))
    ELSE Zero

RECURSIVE shares(_, _, _)
shares(i, c, k) ==
    IF i = 0 THEN Zero
    ELSE IF i \in handled THEN Add(share(i, c, k), shares(i - 1, c, k))
    ELSE shares(i - 1, c, k)

\* C1: between the sample pass and the normalization, model[position(c)][k]
\* is, for every cell c and class k, the sum over the handled samples of
\* label k with no missing chosen feature, and over the drop vectors with
\* loc_i + offset = c, of weight * (5 - ||loc_i - loc_f||); a candidate cell
\* outside [0, grain) on any axis passes the overflow test as overflowing,
\* so position() only ever gets coordinates of the grid.
C1_GridIsTheSumOfInfluences ==
    (pc \in {"sample", "normalize"}) =>
        /\ Len(model) = Pow(grain, dimensions)
        /\ \A c \in Coordinates : \A k \in 1..Len(classes) :
              model[position(c, g) + 1][k]
                  = shares(Len(samples), c, classes[k])
        /\ \A i \in handled : \A d \in DOMAIN dropVectors :
              complete(i) =>
                  (overflow(target(i, d), grain) <=> target(i, d) \notin Coordinates)

\* Two samples of one class have been handled on a two-dimensional grid:
\* a cell holds what both add, another cell holds nothing, and a drop
\* vector pointed outside the grid.
C1_Witness ==
    /\ pc = "normalize"
    /\ dimensions = 2
    /\ Len(samples) = 2
    /\ complete(1) /\ complete(2)
    /\ samples[1].label = samples[2].label
    /\ loc_i(1) # loc_i(2)
    /\ \E c \in Coordinates : \E d, e \in DOMAIN dropVectors :
          /\ target(1, d) = c
          /\ target(2, e) = c
          /\ model[position(c, g) + 1][samples[1].label + 1]
                 = Add(Mul(dropVectors[d].weight, correction(1)),
                       Mul(dropVectors[e].weight, correction(2)))
    /\ \E c \in Coordinates : \A k \in 1..Len(classes) :
          model[position(c, g) + 1][k] = Zero
    /\ \E d \in DOMAIN dropVectors : target(1, d) \notin Coordinates

---------------------------------------------------------------------------
(* Properties of normalize(), calculate_measures() and the skipping of
   samples (SpecLearn) *)

\* learn() has returned.
learned == pc = "ready" /\ model # <<>>

\* Some sample of class k has no missing chosen feature.
contributes(k) ==
    \E i \in 1..Len(samples) : complete(i) /\ samples[i].label = k

\* C2: after normalization every class column has maximum exactly 1, unless
\* no sample of the class contributed, and then the column is entirely
\* zero; on every training set, one with a class without samples included.
C2_ColumnsPeakAtOneOrStayZero ==
    (pc = "measures" \/ learned) =>
        \A k \in 1..Len(classes) :
            IF contributes(classes[k])
            THEN /\ \A c \in 1..Len(model) :
                       ~IsNaN(model[c][k]) /\ ~Gt(model[c][k], One)
                 /\ \E c \in 1..Len(model) : model[c][k] = One
            ELSE \A c \in 1..Len(model) : model[c][k] = Zero

\* The grid a learn() over the samples ss leaves, from the blank grid on.
blank ==
    [c \in 1..Pow(grain, dimensions) |-> [k \in 1..Len(classes) |-> Zero]]

RECURSIVE exposeAll(_, _, _)
exposeAll(m, ss, i) ==
    IF i > Len(ss) THEN m
    ELSE exposeAll(exposeSample(m, ss[i], chosenLambda, grain, g, dropVectors),
                   ss, i + 1)

gridOf(ss) == normalized(exposeAll(blank, ss, 1))

\* The training set without the samples that miss a chosen feature.
kept == SelectSeq(samples, LAMBDA s : ~HasNaN(chosenFeatures(s, chosenLambda)))

\* The training set with 0 put for every value missing in a sample that
\* misses no chosen feature: such values are outside chosenLambda.
patched ==
    [i \in 1..Len(samples) |->
        IF complete(i)
        THEN [label    |-> samples[i].label,
              features |-> [f \in DOMAIN samples[i].features |->
                               IF IsNaN(samples[i].features[f])
                               THEN Zero ELSE samples[i].features[f]]]
        ELSE samples[i]]

\* C8: learn() skips a sample that misses a chosen feature: the grid, the
\* HSV cells and the theta measures are those of the training set with
\* every such sample removed.  A sample that misses values outside
\* chosenLambda only is not skipped: the grid is the one learned with those
\* values filled in, and the sample's class has support somewhere.
C8_IncompleteSamplesAreSkipped ==
    learned =>
        /\ LET grid == gridOf(kept)
               ths  == thetasOf(grid, Len(classes))
           IN  /\ model = grid
               /\ hsv = [c \in 1..Len(grid) |-> hsvOf(grid[c])]
               /\ thetas = ths
               /\ theta = mean(ths)
        /\ model = gridOf(patched)
        /\ \A i \in 1..Len(samples) :
              complete(i) =>
                  \E c \in 1..Len(model) :
                      Gt(model[c][samples[i].label + 1], Zero)

\* learn() has run over a sample that misses its chosen feature and a
\* sample that misses the other feature only; the grid has support for the
\* class of the second and none for the class of the first.
C8_Witness ==
    /\ learned
    /\ Len(samples) = 2
    /\ dimensions = 1
    /\ ~complete(1)
    /\ complete(2) /\ HasNaN(samples[2].features)
    /\ samples[1].label # samples[2].label
    /\ \E c \in 1..Len(model) : model[c][samples[2].label + 1] = One
    /\ \A c \in 1..Len(model) : ~Gt(model[c][samples[1].label + 1], Zero)

\* A cell is counted when some support in it exceeds the threshold .7; it is
\* counted for the first class that has the largest support in it.
counted(c) == \E k \in 1..Len(classes) : Gt(model[c][k], Rat(7, 10))

dominant(c) ==
    CHOOSE k \in 1..Len(classes) :
        /\ \A j \in 1..Len(classes) : ~Gt(model[c][j], model[c][k])
        /\ \A j \in 1..(k - 1) : Lt(model[c][j], model[c][k])

presenceOf(k) ==
    Cardinality({c \in 1..Len(model) : counted(c) /\ dominant(c) = k})

totalPresence == Cardinality({c \in 1..Len(model) : counted(c)})

\* C9: after learn() on any training set, ThetaVector[k] is 1 minus the
\* share of class k among the counted cells, every ThetaVector value is a
\* number of [0, 1], and Theta is the arithmetic mean of ThetaVector.
C9_ThetasArePresenceShares ==
    learned =>
        /\ \A k \in 1..Len(classes) :
              /\ ~IsNaN(thetas[k])
              /\ ~Lt(thetas[k], Zero)
              /\ ~Gt(thetas[k], One)
              /\ Mul(thetas[k], Num(totalPresence))
                     = Num(totalPresence - presenceOf(k))
        /\ ~IsNaN(theta)
        /\ Mul(theta, Num(Len(classes))) = SumSeq(thetas)

\* C10: when no cell exceeds the presence threshold, calculate_measures
\* divides nothing by the zero total: ThetaVector keeps the values it was
\* created with, Theta is their mean, and neither holds a not-a-number.
C10_ZeroPresenceLeavesTheDefault ==
    (learned /\ totalPresence = 0) =>
        /\ thetas = [k \in 1..Len(classes) |-> Zero]
        /\ theta = Zero
        /\ ~HasNaN(thetas)
        /\ ~IsNaN(theta)

---------------------------------------------------------------------------
(* Properties of predict() (Spec) *)

\* The voting mode the configuration names, lone when it names none.
namedMode ==
    IF "exposerVotingMethod" \in DOMAIN configuration
    THEN configuration.exposerVotingMethod ELSE "lone"

\* The contribution of each voting mode, for support row S of a cell with
\* saturation sat.
tabled(mode, S, sat) ==
    [c \in 1..Len(S) |->
        CASE mode = "lone"   -> S[c]
          [] mode = "theta1" -> Mul(theta, S[c])
          [] mode = "theta2" -> Mul(thetas[c], S[c])
          [] mode = "theta3" -> Mul(theta, Mul(thetas[c], S[c]))
          [] mode = "thetas" -> Mul(sat, Mul(theta, Mul(thetas[c], S[c])))]

\* The cell the test sample j falls in, as an index of model and hsv.
cellOf(j) == queryPosition(test[j], chosenLambda, grain, g) + 1

\* C5: what predict() gives a test sample is, for the support row S of its
\* cell: S under lone, Theta*S under theta1, ThetaVector[c]*S[c] under
\* theta2, Theta*ThetaVector[c]*S[c] under theta3 and
\* saturation(cell)*Theta*ThetaVector[c]*S[c] under thetas; the theta1
\* contribution is Theta times the lone one in every class, and a
\* configuration that names no voting mode gets the lone contribution.
C5_ContributionFollowsTheVotingMode ==
    [][pc = "predict" =>
          /\ given'[idx][Len(given'[idx])]
                 = tabled(namedMode, model[cellOf(idx)], hsv[cellOf(idx)][2])
          /\ \A c \in 1..Len(classes) :
                givenSupport("theta1", model[cellOf(idx)], theta, thetas,
                             hsv[cellOf(idx)][2])[c]
                    = Mul(theta,
                          givenSupport("lone", model[cellOf(idx)], theta,
                                       thetas, hsv[cellOf(idx)][2])[c])
          /\ ("exposerVotingMethod" \notin DOMAIN configuration) =>
                given'[idx][Len(given'[idx])] = model[cellOf(idx)]]_vars

\* An exposer voting by thetas has given a test sample a contribution that
\* is a number in every class, is positive in some class, and is not the
\* support row itself.
C5_Witness ==
    /\ exposerVotingMethod = "thetas"
    /\ pc \in {"predict", "ready"}
    /\ passes = 1
    /\ model # <<>>
    /\ \E j \in DOMAIN test :
          /\ Len(given[j]) = 1
          /\ given[j][1] = tabled("thetas", model[cellOf(j)], hsv[cellOf(j)][2])
          /\ ~HasNaN(given[j][1])
          /\ \E c \in 1..Len(classes) : Gt(given[j][1][c], Zero)
          /\ given[j][1] # model[cellOf(j)]

\* The contributions 1..n of a history h, added up from the zero vector.
RECURSIVE sumOfGiven(_, _)
sumOfGiven(h, n) ==
    IF n = 0 THEN [k \in 1..Len(classes) |-> Zero]
    ELSE [k \in 1..Len(classes) |-> Add(sumOfGiven(h, n - 1)[k], h[n][k])]

\* C6: predict() adds to the support accumulator and never replaces it: the
\* accumulator of every test sample is the sum of the contributions of all
\* predict() calls so far; decidePrediction() has run once per contribution,
\* that is once per test sample per predict() call, and it last ran on the
\* accumulator as it is after the latest contribution.
C6_PredictAddsToTheAccumulator ==
    \A j \in DOMAIN test :
        /\ test[j].support = sumOfGiven(given[j], Len(given[j]))
        /\ test[j].decided = Len(given[j])
        /\ Len(given[j]) = IF pc = "predict" /\ j >= idx THEN passes - 1
                                                         ELSE passes
        /\ Len(given[j]) > 0 => test[j].seen = test[j].support

\* Two exposers have predicted: a test sample holds the sum of two
\* contributions that differ and are both numbers, positive in some class.
C6_Witness ==
    /\ pc = "ready"
    /\ passes = 2
    /\ \E j \in DOMAIN test :
          /\ Len(given[j]) = 2
          /\ given[j][1] # given[j][2]
          /\ ~HasNaN(given[j][1]) /\ ~HasNaN(given[j][2])
          /\ \E c \in 1..Len(classes) : Gt(given[j][1][c], Zero)
          /\ \E c \in 1..Len(classes) : Gt(given[j][2][c], Zero)
          /\ test[j].support # given[j][2]
          /\ test[j].decided = 2

\* The coordinate of a query feature f: floor(f*grain) in [0, 1), grain - 1
\* from 1 on, and floor(0.5*grain) when f is missing.
coordinateOf(f) ==
    IF IsNaN(f) THEN grain \div 2
    ELSE IF Lt(f, One) THEN (f[1] * grain) \div f[4]
    ELSE grain - 1

\* Test sample j with 0.5 for each missing value.
filled(j) ==
    [test[j] EXCEPT !.features =
        [f \in DOMAIN test[j].features |->
            IF IsNaN(test[j].features[f]) THEN Rat(1, 2)
                                          ELSE test[j].features[f]]]

\* C7: for a query whose chosen features are missing, in [0, 1) or >= 1,
\* predict() quantizes every axis to floor(feature*grain), grain - 1 and
\* floor(0.5*grain) in these three cases; the cell index is inside
\* [0, grain^dimensions), so the lookup raises no error; and a query with a
\* missing chosen feature is given what the same query with 0.5 is given.
C7_QueryQuantizationIsTotal ==
    (model # <<>> /\ thetas # <<>> /\ pc \in {"ready", "predict"}) =>
        \A j \in DOMAIN test :
            /\ queryLocation(fillMissing(chosenFeatures(test[j], chosenLambda)),
                             grain)
                   = [a \in 1..dimensions |->
                         coordinateOf(test[j].features[chosenLambda[a]])]
            /\ cellOf(j) - 1 \in 0..(Pow(grain, dimensions) - 1)
            /\ cellOf(j) \in DOMAIN model
            /\ contribution(test[j]) = contribution(filled(j))

\* predict() has handled the query (missing, 1) on a grid of grain 4 over
\* the features (2, 1): it fell in the cell (3, 2) and was given the support
\* row of that cell, which holds support.
C7_Witness ==
    /\ pc \in {"ready", "predict"}
    /\ passes = 1
    /\ model # <<>>
    /\ grain = 4
    /\ chosenLambda = <<2, 1>>
    /\ exposerVotingMethod = "lone"
    /\ IsNaN(test[2].features[1]) /\ test[2].features[2] = One
    /\ Len(given[2]) = 1
    /\ cellOf(2) - 1 = position(<<3, 2>>, g)
    /\ given[2][1] = model[cellOf(2)]
    /\ \E c \in 1..Len(classes) : Gt(given[2][1][c], Zero)

---------------------------------------------------------------------------
(* Properties of the configuration (SpecGeom) *)

\* The configuration is in range: grain >= 1, radius > 0, a quantized
\* radius of at least 1, and every chosenLambda index inside the feature
\* vector of every sample.
inRange ==
    /\ configuration.grain >= 1
    /\ Gt(configuration.radius, Zero)
    /\ (configuration.radius[1] * configuration.grain)
           \div configuration.radius[4] >= 1
    /\ \A i \in 1..Len(samples) :
          \A j \in 1..Len(configuration.chosenLambda) :
              configuration.chosenLambda[j] \in DOMAIN samples[i].features

\* C11: a configuration out of range is refused when the Exposer is
\* constructed: no constructed Exposer, hence none that reaches learn() or
\* predict(), has such a configuration, and none holds the drop-vector
\* list of a quantized radius of 0.
C11_OutOfRangeConfigurationIsRefused ==
    pc # "new" => (inRange /\ floorRadius >= 1)

---------------------------------------------------------------------------
(* Properties of predict() and png() as readers (SpecRender) *)

\* A step of predict() or of png(): a call begins, a test sample is
\* handled, or an image is rendered.
readingStep ==
    \/ pc = "predict"
    \/ passes' # passes
    \/ image' # image

\* The features of the test samples, which no call changes.
queries == [j \in DOMAIN test |-> test[j].features]

\* C12: predict() and png() only read the trained structure: no step of
\* theirs, under any voting mode, changes the grid, the HSV cells,
\* ThetaVector or Theta, nor the configuration, the training set or the
\* fields __init__ set; of the test samples only the accumulators and the
\* predictions change.
C12_PredictAndPngOnlyRead ==
    [][readingStep =>
          /\ UNCHANGED <<model, hsv, thetas, theta>>
          /\ UNCHANGED <<configuration, dataset, object>>
          /\ queries' = queries]_vars

\* A lone exposer has predicted twice and rendered an image in between or
\* after: a test sample holds twice the grid row of its cell, which holds
\* support, and the grid is still the one learn() computes.
C12_Witness ==
    /\ pc = "ready"
    /\ passes = 2
    /\ exposerVotingMethod = "lone"
    /\ image # <<>>
    /\ model = gridOf(samples)
    /\ \E j \in DOMAIN test :
          /\ given[j] = <<model[cellOf(j)], model[cellOf(j)]>>
          /\ test[j].support = addEach(model[cellOf(j)], model[cellOf(j)])
          /\ \E c \in 1..Len(classes) : Gt(model[cellOf(j)][c], Zero)

---------------------------------------------------------------------------
(* Properties of learn() as a function of its inputs (SpecRelearn) *)

\* The orders in which the training samples can be iterated.
Orders ==
    {f \in [DOMAIN samples -> DOMAIN samples] :
        \A i, j \in DOMAIN samples : f[i] = f[j] => i = j}

reordered(f) == [i \in DOMAIN samples |-> samples[f[i]]]

\* C13: what learn() leaves depends on the configuration and on the
\* multiset of training samples only.  Whenever learn() ends, be it the
\* first learn() of the instance or a later one, with predict() calls in
\* between or not, the grid is the grid computed from the blank grid over
\* the samples in any order, and the HSV cells and the theta measures are
\* those of that grid: nothing of an earlier training is carried over.
C13_LearnDependsOnItsInputsOnly ==
    [][pc = "measures" =>
          LET exposed == exposeAll(blank, samples, 1)
              grid    == normalized(exposed)
              ths     == thetasOf(grid, Len(classes))
          IN  /\ \A f \in Orders : exposeAll(blank, reordered(f), 1) = exposed
              /\ model' = grid
              /\ hsv' = [c \in 1..Len(grid) |-> hsvOf(grid[c])]
              /\ thetas' = ths
              /\ theta' = mean(ths)]_vars

\* A second learn() of an instance that has predicted is about to end, over
\* other samples than the first: the measures still held are not those of
\* the grid, which has support for both classes.
C13_Witness ==
    /\ pc = "measures"
    /\ thetas # <<>>
    /\ ~HasNaN(thetas)
    /\ thetas # thetasOf(model, Len(classes))
    /\ passes >= 1
    /\ Len(samples) = 4
    /\ \E j \in DOMAIN test :
          /\ Len(given[j]) >= 1
          /\ \E c \in 1..Len(classes) : Gt(given[j][Len(given[j])][c], Zero)
    /\ \A k \in 1..Len(classes) :
          \E c \in 1..Len(model) : model[c][k] = One

---------------------------------------------------------------------------
(* Properties of the HSV cells (SpecLearn) *)

\* x >= y, false when either is not a number.
atLeast(x, y) == ~IsNaN(x) /\ ~IsNaN(y) /\ ~Lt(x, y)

\* Some drop vector of some sample with no missing chosen feature aims at
\* the cell c.
reached(c) ==
    \E i \in 1..Len(samples) : \E d \in DOMAIN dropVectors :
        complete(i) /\ target(i, d) = c

\* The triple t is the one the support row R calls for: the hue of the
\* lowest class index attaining max(R), the saturation (max - min)/max or 0
\* when the maximum is 0, and the value max(R).
tripleOf(R, t) ==
    \E hi, lo \in 1..Len(R) :
        /\ \A j \in 1..Len(R) : atLeast(R[hi], R[j]) /\ atLeast(R[j], R[lo])
        /\ \A j \in 1..(hi - 1) : R[j] # R[hi]
        /\ t[1] = Rat(hi - 1, Len(R))
        /\ t[2] = IF R[hi] # Zero THEN Div(Sub(R[hi], R[lo]), R[hi]) ELSE Zero
        /\ t[3] = R[hi]

\* C14: after learn() the HSV triple of every cell is the one its support
\* row calls for, hue is in [0,1), saturation and value are in [0,1], and a
\* cell no sample reached has the triple (0, 0, 0).
C14_HsvFollowsTheSupportRow ==
    learned =>
        /\ Len(hsv) = Len(model)
        /\ \A c \in Coordinates :
              LET cell == position(c, g) + 1
                  t    == hsv[cell]
              IN  /\ tripleOf(model[cell], t)
                  /\ atLeast(t[1], Zero) /\ Lt(t[1], One)
                  /\ atLeast(t[2], Zero) /\ atLeast(One, t[2])
                  /\ atLeast(t[3], Zero) /\ atLeast(One, t[3])
                  /\ ~reached(c) => t = <<Zero, Zero, Zero>>

---------------------------------------------------------------------------
(* The measures when every class has a complete sample (SpecLearn) *)

\* Every class has a training sample with no missing chosen feature.
everyClassContributes == \A k \in 1..Len(classes) : contributes(classes[k])

\* The drop vector that does not move.
origin == [j \in 1..dimensions |-> 0]

\* The cell sample i falls in, as an index of self.model.
ownCell(i) == position(loc_i(i), g) + 1

\* C15: when floor(radius * grain) >= 1 and every class has a sample with no
\* missing chosen feature (the features being in [0,1)), the origin drop
\* vector has weight 1 and each such sample adds exactly
\* 5 - ||loc_i - loc_f|| > 0 to its own cell; so every class column has a
\* positive maximum before normalization and the maximum 1 after it, some
\* cell exceeds the presence threshold, ThetaVector sums to numClasses - 1
\* and Theta is (numClasses - 1)/numClasses; the theta1 contribution of
\* every cell is its support row times that constant.
C15_ThetaIsTheSameForEveryTraining ==
    [][(floorRadius >= 1 /\ everyClassContributes) =>
          /\ (pc = "sample" /\ complete(idx)) =>
                LET lab == samples[idx].label + 1
                IN  /\ \E d \in DOMAIN dropVectors :
                          /\ dropVectors[d].offset = origin
                          /\ dropVectors[d].weight = One
                    /\ Gt(correction(idx), Zero)
                    /\ model'[ownCell(idx)][lab]
                           = Add(model[ownCell(idx)][lab], correction(idx))
          /\ pc = "normalize" =>
                \A k \in 1..Len(classes) :
                    \E c \in 1..Len(model) :
                        /\ Gt(model[c][k], Zero)
                        /\ model'[c][k] = One
          /\ pc = "measures" =>
                LET n == Len(classes)
                IN  /\ totalPresence >= 1
                    /\ SumSeq(thetas') = Num(n - 1)
                    /\ theta' = Rat(n - 1, n)
                    /\ \A c \in 1..Len(model) :
                          givenSupport("theta1", model'[c], theta', thetas',
                                       hsv'[c][2])
                              = [k \in 1..n |-> Mul(Rat(n - 1, n), model[c][k])]
    ]_vars

\* learn() has returned on a training set with a sample of each class, one
\* of them off the corner of its cell: the two classes do not have the same
\* presence, and Theta is 1/2.
C15_Witness ==
    /\ learned
    /\ floorRadius >= 1
    /\ everyClassContributes
    /\ \E i \in 1..Len(samples) :
          complete(i) /\ Lt(correction(i), Num(5))
    /\ thetas[1] # thetas[2]
    /\ SumSeq(thetas) = One
    /\ theta = Rat(1, 2)

===========================================================================
